---- MODULE Spec2Model ----
(***************************************************************************)
(* Model of script.py: one batch run that fetches an iCal feed, cleans the *)
(* text, parses it, rewrites the times of the 08:45 and 13:45 shifts and   *)
(* publishes the result under docs/.                                       *)
(*                                                                         *)
(* Three specifications share the variables:                               *)
(*   Spec      the whole run of main(), one action per step of the code;   *)
(*   NormSpec  the time rewrite of lines 53-67 applied to one event, and   *)
(*             applied again to its own result;                            *)
(*   SanSpec   the text cleaning of lines 23-25 applied to one text, and   *)
(*             applied again to its own result.                            *)
(***************************************************************************)
EXTENDS Integers, Sequences, FiniteSets, TLC

VARIABLES
    pc,         \* the step main() executes next, or "done" / "failed"
    resp,       \* resp: the status and the text of the HTTP response
    cleanText,  \* clean_text
    cal,        \* cal: the parsed calendar (its properties and its VEVENTs)
    newCal,     \* new_cal: the calendar being built
    idx,        \* position of the loop of line 42 in events (1-based)
    log,        \* the lines printed so far
    raised,     \* the exception main() re-raised, "" when none
    icalBytes,  \* the value of new_cal.to_ical() once line 86 has computed it
    docsDir,    \* file system: does the directory docs exist
    icsFile,    \* file system: docs/fixed_shifts.ics
    markerFile, \* file system: docs/.nojekyll
    prior,      \* the file system as the run found it (never written)
    nStage, nIn, nOut, nOut2,   \* NormSpec: one event's times through the rewrite
    sStage, sText, sOut, sOut2  \* SanSpec: one text through the cleaning

vars == <<pc, resp, cleanText, cal, newCal, idx, log, raised, icalBytes,
          docsDir, icsFile, markerFile, prior,
          nStage, nIn, nOut, nOut2, sStage, sText, sOut, sOut2>>

pipeVars == <<pc, resp, cleanText, cal, newCal, idx, log, raised, icalBytes,
              docsDir, icsFile, markerFile, prior>>
normVars == <<nStage, nIn, nOut, nOut2>>
sanVars == <<sStage, sText, sOut, sOut2>>

(***************************************************************************)
(* Time.  An instant is a number of seconds since 2024-01-01T00:00:00Z.    *)
(* A local datetime, as pytz hands it out, is a wall-clock reading with    *)
(* the fixed UTC offset of the tzinfo instance attached to it.             *)
(***************************************************************************)
SecondsPerMinute == 60
SecondsPerHour == 3600
SecondsPerDay == 86400

\* Europe/Amsterdam in 2024: CEST from 2024-03-31T01:00Z to 2024-10-27T01:00Z.
DstStart == 90 * SecondsPerDay + SecondsPerHour
DstEnd == 300 * SecondsPerDay + SecondsPerHour
CET == 3600
CEST == 7200

UtcOffsetAt(t) == IF DstStart <= t /\ t < DstEnd THEN CEST ELSE CET

\* dt.astimezone(tz): the wall clock of the zone at that instant, carrying
\* the offset that is in force at that instant.
ToLocal(t) == [wall |-> t + UtcOffsetAt(t), off |-> UtcOffsetAt(t)]

LocalDay(l) == l.wall \div SecondsPerDay
LocalHour(l) == (l.wall % SecondsPerDay) \div SecondsPerHour
LocalMinute(l) == (l.wall % SecondsPerHour) \div SecondsPerMinute
LocalSecond(l) == l.wall % SecondsPerMinute

\* dt.replace(hour=h, minute=m): date, second and tzinfo are kept.
ReplaceHM(l, h, m) ==
    [l EXCEPT !.wall = LocalDay(l) * SecondsPerDay + h * SecondsPerHour
                       + m * SecondsPerMinute + LocalSecond(l)]

\* dt.astimezone(timezone.utc): the wall clock minus the offset the datetime
\* carries (pytz's tzinfo answers utcoffset() with its own fixed offset).
ToUtc(l) == l.wall - l.off

IsMorning(l) == LocalHour(l) = 8 /\ LocalMinute(l) = 45
IsAfternoon(l) == LocalHour(l) = 13 /\ LocalMinute(l) = 45

\* Faulty variant of Adjust: the morning test looks at the hour alone.
AdjustLoose(sl, el) ==
    IF LocalHour(sl) = 8
    THEN [s |-> ReplaceHM(sl, 9, 0), e |-> ReplaceHM(el, 13, 0)]
    ELSE IF IsAfternoon(sl)
    THEN [s |-> ReplaceHM(sl, 13, 0), e |-> ReplaceHM(el, 17, 0)]
    ELSE [s |-> sl, e |-> el]
\* Faulty variant of Adjust: the morning start is moved onto the afternoon
\* trigger.
AdjustChained(sl, el) ==
    IF IsMorning(sl)
    THEN [s |-> ReplaceHM(sl, 13, 45), e |-> ReplaceHM(el, 13, 0)]
    ELSE IF IsAfternoon(sl)
    THEN [s |-> ReplaceHM(sl, 13, 0), e |-> ReplaceHM(el, 17, 0)]
    ELSE [s |-> sl, e |-> el]
\* The if / elif of lines 58-63 on the local start and end.
Adjust(sl, el) ==
    IF IsMorning(sl)
    THEN [s |-> ReplaceHM(sl, 9, 0), e |-> ReplaceHM(el, 13, 0)]
    ELSE IF IsAfternoon(sl)
    THEN [s |-> ReplaceHM(sl, 13, 0), e |-> ReplaceHM(el, 17, 0)]
    ELSE [s |-> sl, e |-> el]

\* Lines 53-67 for one event: from the decoded start and end instants to the
\* new instants, with the adjusted local datetimes line 78 prints.
NormalizeTimes(startUtc, endUtc) ==
    LET a == Adjust(ToLocal(startUtc), ToLocal(endUtc))
    IN [start |-> ToUtc(a.s), end |-> ToUtc(a.e), startLocal |-> a.s, endLocal |-> a.e]

\* '%H:%M' of a local datetime, as the number HHMM.
HHMM(l) == LocalHour(l) * 100 + LocalMinute(l)

(***************************************************************************)
(* The instants the events of the model are drawn from: days around both   *)
(* 2024 DST changes and an ordinary winter day, at the times of day that   *)
(* hit, miss by a minute, or cross the two triggers.                       *)
(***************************************************************************)
At(day, h, m, s) == day * SecondsPerDay + h * SecondsPerHour + m * SecondsPerMinute + s

\* 2024-01-10, 2024-03-30, 2024-03-31, 2024-10-26, 2024-10-27
DayPool == {9, 89, 90, 299, 300}
ClockPool ==
    { <<0, 30, 0>>, <<6, 44, 0>>, <<6, 45, 0>>, <<6, 46, 0>>, <<7, 44, 0>>,
      <<7, 45, 0>>, <<7, 45, 30>>, <<7, 46, 0>>, <<8, 0, 0>>, <<8, 30, 0>>,
      <<11, 44, 0>>, <<11, 45, 0>>, <<11, 46, 0>>, <<12, 0, 0>>, <<12, 44, 0>>,
      <<12, 45, 0>>, <<12, 46, 0>>, <<13, 30, 0>>, <<23, 30, 0>> }
InstantPool == { At(d, c[1], c[2], c[3]) : d \in DayPool, c \in ClockPool }

NoTimes == [start |-> 0, end |-> 0, startLocal |-> ToLocal(0), endLocal |-> ToLocal(0)]

(***************************************************************************)
(* Text.  A text is a sequence of characters; the alphabet has one         *)
(* ordinary character, the space, the no-break space U+00A0 and the two    *)
(* line breaks.                                                            *)
(***************************************************************************)
Chars == {"a", "SP", "NBSP", "LF", "CR"}

\* str.splitlines(): LF, CR and CR LF each end a line; a text that ends in
\* a line break has no empty last line.
RECURSIVE SplitFrom(_, _, _)
SplitFrom(t, i, cur) ==
    IF i > Len(t) THEN (IF cur = <<>> THEN <<>> ELSE <<cur>>)
    ELSE IF t[i] = "LF" THEN <<cur>> \o SplitFrom(t, i + 1, <<>>)
    ELSE IF t[i] = "CR"
    THEN (IF i + 1 <= Len(t) /\ t[i + 1] = "LF"
          THEN <<cur>> \o SplitFrom(t, i + 2, <<>>)
          ELSE <<cur>> \o SplitFrom(t, i + 1, <<>>))
    ELSE SplitFrom(t, i + 1, Append(cur, t[i]))

SplitLines(t) == SplitFrom(t, 1, <<>>)

\* Faulty variant of IsSpace: U+00A0 is not taken for white space.
IsSpaceAscii(c) == c \in {"SP", "LF", "CR"}
\* str.isspace() of one character: U+00A0 is white space to Python 3.
IsSpace(c) == c \in {"SP", "NBSP", "LF", "CR"}

RECURSIVE LStrip(_)
LStrip(l) == IF l # <<>> /\ IsSpace(Head(l)) THEN LStrip(Tail(l)) ELSE l

RECURSIVE RStrip(_)
RStrip(l) ==
    IF l # <<>> /\ IsSpace(l[Len(l)]) THEN RStrip(SubSeq(l, 1, Len(l) - 1)) ELSE l

\* line.strip()
Strip(l) == RStrip(LStrip(l))

IsNbsp(c) == c = "NBSP"
\* line.replace('\xa0', '')
RemoveNbsp(l) == SelectSeq(l, LAMBDA c : ~IsNbsp(c))

RECURSIVE Join(_)
\* '\n'.join(lines)
Join(ls) ==
    IF ls = <<>> THEN <<>>
    ELSE IF Len(ls) = 1 THEN ls[1]
    ELSE ls[1] \o <<"LF">> \o Join(Tail(ls))

\* Line 24: the cleaned lines of a text.
CleanLines(text) ==
    LET ls == SplitLines(text)
    IN [i \in 1..Len(ls) |-> RemoveNbsp(Strip(ls[i]))]

\* Lines 23-25.
Sanitize(text) == Join(CleanLines(text))

MaxTextLen == 4

RECURSIVE SeqsUpTo(_, _)
SeqsUpTo(S, n) ==
    IF n = 0 THEN {<<>>}
    ELSE LET shorter == SeqsUpTo(S, n - 1)
         IN shorter \cup { Append(q, c) : q \in {r \in shorter : Len(r) = n - 1}, c \in S }

(***************************************************************************)
(* Idle values of the variables a specification does not use.              *)
(***************************************************************************)
NoResp == [status |-> 0, text |-> <<>>]
NoCal == [meta |-> <<>>, events |-> <<>>]
NoBytes == [done |-> FALSE, data |-> <<>>]
NoFile == [exists |-> FALSE, data |-> <<>>]
NoFs == [docs |-> FALSE, ics |-> NoFile, marker |-> NoFile]

PipeIdle ==
    /\ pc = "idle" /\ resp = NoResp /\ cleanText = <<>> /\ cal = NoCal
    /\ newCal = NoCal /\ idx = 0 /\ log = <<>> /\ raised = ""
    /\ icalBytes = NoBytes /\ docsDir = FALSE /\ icsFile = NoFile
    /\ markerFile = NoFile /\ prior = NoFs
NormIdle ==
    /\ nStage = "idle" /\ nIn = [start |-> 0, end |-> 0]
    /\ nOut = NoTimes /\ nOut2 = NoTimes
SanIdle == sStage = "idle" /\ sText = <<>> /\ sOut = <<>> /\ sOut2 = <<>>

(***************************************************************************)
(* NormSpec: the rewrite of lines 53-67 on one event, then on its result.  *)
(***************************************************************************)
NormInit ==
    /\ PipeIdle /\ SanIdle
    /\ nStage = "input"
    /\ nIn \in [start : InstantPool, end : InstantPool]
    /\ nOut = NoTimes /\ nOut2 = NoTimes

NormApply ==
    /\ nStage = "input"
    /\ nOut' = NormalizeTimes(nIn.start, nIn.end)
    /\ nStage' = "once"
    /\ UNCHANGED <<nIn, nOut2, pipeVars, sanVars>>

NormReapply ==
    /\ nStage = "once"
    /\ nOut2' = NormalizeTimes(nOut.start, nOut.end)
    /\ nStage' = "twice"
    /\ UNCHANGED <<nIn, nOut, pipeVars, sanVars>>

NormNext == NormApply \/ NormReapply
NormSpec == NormInit /\ [][NormNext]_vars

(***************************************************************************)
(* SanSpec: the cleaning of lines 23-25 on one text, then on its result.   *)
(***************************************************************************)
SanInit ==
    /\ PipeIdle /\ NormIdle
    /\ sStage = "input"
    /\ sText \in SeqsUpTo(Chars, MaxTextLen)
    /\ sOut = <<>> /\ sOut2 = <<>>

SanApply ==
    /\ sStage = "input"
    /\ sOut' = Sanitize(sText)
    /\ sStage' = "once"
    /\ UNCHANGED <<sText, sOut2, pipeVars, normVars>>

SanReapply ==
    /\ sStage = "once"
    /\ sOut2' = Sanitize(sOut)
    /\ sStage' = "twice"
    /\ UNCHANGED <<sText, sOut, pipeVars, normVars>>

SanNext == SanApply \/ SanReapply
SanSpec == SanInit /\ [][SanNext]_vars

(***************************************************************************)
(* Calendar data.  A component is the ordered list of its properties; a    *)
(* property value is a text, a date-time (an instant) or a date.           *)
(***************************************************************************)
TextVal(str) == [kind |-> "text", t |-> 0, s |-> str]
DateTimeVal(t) == [kind |-> "datetime", t |-> t, s |-> ""]
DateVal(d) == [kind |-> "date", t |-> d, s |-> ""]
Prop(n, v) == [name |-> n, val |-> v]

\* k in component
Has(comp, k) == \E i \in 1..Len(comp) : comp[i].name = k

\* component.get(k, default), for a text property
Get(comp, k, default) ==
    IF Has(comp, k)
    THEN comp[CHOOSE i \in 1..Len(comp) : comp[i].name = k].val.s
    ELSE default

\* component.decoded(k)
Decoded(comp, k) == comp[CHOOSE i \in 1..Len(comp) : comp[i].name = k].val

\* Line 44: the event lacks one of the two times.
MissingTimes(comp) == ~Has(comp, "DTSTART") \/ ~Has(comp, "DTEND")

\* Lines 53-54 call astimezone() on what decoded() returned; a VALUE=DATE
\* property decodes to a date, which has no such method.
IsDateTime(v) == v.kind = "datetime"

\* Faulty variant of RebuildEvent: the old DTSTART is copied too.
RebuildEventKeepsStart(comp, newStart, newEnd) ==
    SelectSeq(comp, LAMBDA p : p.name # "DTEND")
        \o <<Prop("DTSTART", DateTimeVal(newStart)), Prop("DTEND", DateTimeVal(newEnd))>>
\* Lines 70-75: a new event with every property but the two times, then the
\* two new times.
RebuildEvent(comp, newStart, newEnd) ==
    SelectSeq(comp, LAMBDA p : p.name \notin {"DTSTART", "DTEND"})
        \o <<Prop("DTSTART", DateTimeVal(newStart)), Prop("DTEND", DateTimeVal(newEnd))>>

RECURSIVE SerializeEvents(_)
SerializeEvents(evs) ==
    IF evs = <<>> THEN <<>>
    ELSE <<Prop("BEGIN", TextVal("VEVENT"))>> \o Head(evs)
         \o <<Prop("END", TextVal("VEVENT"))>> \o SerializeEvents(Tail(evs))

\* new_cal.to_ical(): the content lines of the calendar, its own properties
\* first, then each event between its BEGIN and END lines.
Serialize(doc) ==
    <<Prop("BEGIN", TextVal("VCALENDAR"))>> \o doc.meta
        \o SerializeEvents(doc.events) \o <<Prop("END", TextVal("VCALENDAR"))>>

LogLine(msg, uid, a, b) == [msg |-> msg, uid |-> uid, a |-> a, b |-> b]

(***************************************************************************)
(* The inputs of a run.                                                    *)
(***************************************************************************)
MaxEvents == 2

TextPool ==
    { <<"a", "SP", "CR", "LF", "NBSP", "a">>,
      <<"SP", "a", "NBSP", "a", "LF", "LF">>,
      <<"a", "LF", "a">> }

MetaPool ==
    { <<Prop("VERSION", TextVal("2.0")), Prop("PRODID", TextVal("roster"))>>,
      <<Prop("X-WR-TIMEZONE", TextVal("Europe/Amsterdam"))>> }

EventPool ==
    { \* 2024-01-10 08:45-09:30 +01:00
      <<Prop("UID", TextVal("E1")), Prop("SUMMARY", TextVal("Shift")),
        Prop("DTSTART", DateTimeVal(At(9, 7, 45, 0))), Prop("DTEND", DateTimeVal(At(9, 8, 30, 0)))>>,
      \* 2024-01-10 13:45-14:30 +01:00
      <<Prop("DTSTART", DateTimeVal(At(9, 12, 45, 0))), Prop("UID", TextVal("E2")),
        Prop("DTEND", DateTimeVal(At(9, 13, 30, 0)))>>,
      \* no DTEND
      <<Prop("UID", TextVal("E3")), Prop("DTSTART", DateTimeVal(At(9, 7, 45, 0)))>>,
      \* no UID, no DTSTART
      <<Prop("SUMMARY", TextVal("Shift")), Prop("DTEND", DateTimeVal(At(9, 8, 30, 0)))>>,
      \* 2024-01-10 09:00-13:00 +01:00
      <<Prop("UID", TextVal("E5")), Prop("DTSTART", DateTimeVal(At(9, 8, 0, 0))),
        Prop("DTEND", DateTimeVal(At(9, 12, 0, 0))), Prop("LOCATION", TextVal("Desk"))>>,
      \* an all-day event: DATE values
      <<Prop("UID", TextVal("E6")), Prop("DTSTART", DateVal(9)), Prop("DTEND", DateVal(10))>>,
      \* 2024-03-30 08:45 +01:00 to 2024-03-31 01:30 +01:00, no UID
      <<Prop("DTSTART", DateTimeVal(At(89, 7, 45, 0))), Prop("DTEND", DateTimeVal(At(90, 0, 30, 0)))>> }

OldIcs == [exists |-> TRUE, data |-> <<Prop("BEGIN", TextVal("OLD"))>>]
OldMarker == [exists |-> TRUE, data |-> <<"x">>]
EmptyFile == [exists |-> TRUE, data |-> <<>>]

HttpErrors == {404, 500}
NoResponse == -1

(***************************************************************************)
(* Spec: one run of main().                                                *)
(***************************************************************************)
Init ==
    /\ NormIdle /\ SanIdle
    /\ pc = "fetch" /\ resp = NoResp /\ cleanText = <<>> /\ cal = NoCal
    /\ newCal = NoCal /\ idx = 0 /\ log = <<>> /\ raised = ""
    /\ icalBytes = NoBytes
    /\ docsDir \in BOOLEAN
    /\ icsFile \in {NoFile, OldIcs}
    /\ markerFile \in {NoFile, OldMarker, EmptyFile}
    /\ (~docsDir => (icsFile = NoFile /\ markerFile = NoFile))
    /\ prior = [docs |-> docsDir, ics |-> icsFile, marker |-> markerFile]

Fs == [docs |-> docsDir, ics |-> icsFile, marker |-> markerFile]

\* Lines 16-18, the request succeeds with a 2xx status.
FetchOk ==
    /\ pc = "fetch"
    /\ \E text \in TextPool : resp' = [status |-> 200, text |-> text]
    /\ log' = Append(log, LogLine("Fetching iCal", "", 0, 0))
    /\ pc' = "sanitize"
    /\ UNCHANGED <<cleanText, cal, newCal, idx, raised, icalBytes,
                   docsDir, icsFile, markerFile, prior, normVars, sanVars>>

\* Faulty variant of FetchFail: the error is printed and the run goes on.
FetchFailSwallowed ==
    /\ pc = "fetch"
    /\ \E st \in HttpErrors \cup {NoResponse} : resp' = [status |-> st, text |-> <<>>]
    /\ log' = log \o <<LogLine("Fetching iCal", "", 0, 0),
                       LogLine("Error fetching the iCal file", "", 0, 0)>>
    /\ pc' = "sanitize"
    /\ UNCHANGED <<cleanText, cal, newCal, idx, raised, icalBytes,
                   docsDir, icsFile, markerFile, prior, normVars, sanVars>>
\* Lines 16-18 and 96-98: requests.get raises (no response), or
\* raise_for_status raises on a 4xx / 5xx status; the handler prints and
\* re-raises.
FetchFail ==
    /\ pc = "fetch"
    /\ \E st \in HttpErrors \cup {NoResponse} : resp' = [status |-> st, text |-> <<>>]
    /\ log' = log \o <<LogLine("Fetching iCal", "", 0, 0),
                       LogLine("Error fetching the iCal file", "", 0, 0)>>
    /\ raised' = "RequestException"
    /\ pc' = "failed"
    /\ UNCHANGED <<cleanText, cal, newCal, idx, icalBytes,
                   docsDir, icsFile, markerFile, prior, normVars, sanVars>>

\* Lines 23-25.
SanitizeText ==
    /\ pc = "sanitize"
    /\ cleanText' = Sanitize(resp.text)
    /\ pc' = "parse"
    /\ UNCHANGED <<resp, cal, newCal, idx, log, raised, icalBytes,
                   docsDir, icsFile, markerFile, prior, normVars, sanVars>>

\* Line 28, the text is a calendar: its properties and its events are
\* whatever the text holds.
ParseOk ==
    /\ pc = "parse"
    /\ \E meta \in MetaPool, evs \in SeqsUpTo(EventPool, MaxEvents) :
          cal' = [meta |-> meta, events |-> evs]
    /\ pc' = "copymeta"
    /\ UNCHANGED <<resp, cleanText, newCal, idx, log, raised, icalBytes,
                   docsDir, icsFile, markerFile, prior, normVars, sanVars>>

\* Lines 28 and 99-101: from_ical raises on a text that is no calendar.
ParseFail ==
    /\ pc = "parse"
    /\ log' = Append(log, LogLine("An unexpected error occurred", "", 0, 0))
    /\ raised' = "ValueError"
    /\ pc' = "failed"
    /\ UNCHANGED <<resp, cleanText, cal, newCal, idx, icalBytes,
                   docsDir, icsFile, markerFile, prior, normVars, sanVars>>

\* Lines 29-37: the new calendar gets every property of the parsed one.
CopyMetadata ==
    /\ pc = "copymeta"
    /\ newCal' = [meta |-> cal.meta, events |-> <<>>]
    /\ log' = log \o <<LogLine("Processing events", "", 0, 0),
                       LogLine("Found events", "", Len(cal.events), 0)>>
    /\ idx' = 1
    /\ pc' = "normalize"
    /\ UNCHANGED <<resp, cleanText, cal, raised, icalBytes,
                   docsDir, icsFile, markerFile, prior, normVars, sanVars>>

InLoop == pc = "normalize" /\ idx <= Len(cal.events)

\* Faulty variant of SkipEvent: the event is reported and kept.
SkipEventKeeps ==
    /\ InLoop
    /\ MissingTimes(cal.events[idx])
    /\ log' = Append(log, LogLine("Skipping event", Get(cal.events[idx], "UID", "N/A"), 0, 0))
    /\ newCal' = [newCal EXCEPT !.events = Append(@, cal.events[idx])]
    /\ idx' = idx + 1
    /\ UNCHANGED <<pc, resp, cleanText, cal, raised, icalBytes,
                   docsDir, icsFile, markerFile, prior, normVars, sanVars>>
\* Lines 44-47: an event without DTSTART or without DTEND is reported and
\* left out.
SkipEvent ==
    /\ InLoop
    /\ MissingTimes(cal.events[idx])
    /\ log' = Append(log, LogLine("Skipping event", Get(cal.events[idx], "UID", "N/A"), 0, 0))
    /\ idx' = idx + 1
    /\ UNCHANGED <<pc, resp, cleanText, cal, newCal, raised, icalBytes,
                   docsDir, icsFile, markerFile, prior, normVars, sanVars>>

\* Lines 49-78: the event's times are rewritten and the rebuilt event is
\* appended to the new calendar.
ProcessEvent ==
    /\ InLoop
    /\ ~MissingTimes(cal.events[idx])
    /\ LET comp == cal.events[idx]
           ds == Decoded(comp, "DTSTART")
           de == Decoded(comp, "DTEND")
           n == NormalizeTimes(ds.t, de.t)
       IN /\ IsDateTime(ds) /\ IsDateTime(de)
          /\ newCal' = [newCal EXCEPT !.events = Append(@, RebuildEvent(comp, n.start, n.end))]
          /\ log' = Append(log, LogLine("Shift adjusted", Get(comp, "UID", "None"),
                                        HHMM(n.startLocal), HHMM(n.endLocal)))
    /\ idx' = idx + 1
    /\ UNCHANGED <<pc, resp, cleanText, cal, raised, icalBytes,
                   docsDir, icsFile, markerFile, prior, normVars, sanVars>>

\* Lines 53-54 and 99-101: astimezone() on a date raises AttributeError.
FailEvent ==
    /\ InLoop
    /\ ~MissingTimes(cal.events[idx])
    /\ ~(IsDateTime(Decoded(cal.events[idx], "DTSTART"))
         /\ IsDateTime(Decoded(cal.events[idx], "DTEND")))
    /\ log' = Append(log, LogLine("An unexpected error occurred", "", 0, 0))
    /\ raised' = "AttributeError"
    /\ pc' = "failed"
    /\ UNCHANGED <<resp, cleanText, cal, newCal, idx, icalBytes,
                   docsDir, icsFile, markerFile, prior, normVars, sanVars>>

\* Line 81, once the loop is over: os.makedirs("docs", exist_ok=True).
MakeDirs ==
    /\ pc = "normalize" /\ idx > Len(cal.events)
    /\ docsDir' = TRUE
    /\ pc' = "open"
    /\ UNCHANGED <<resp, cleanText, cal, newCal, idx, log, raised, icalBytes,
                   icsFile, markerFile, prior, normVars, sanVars>>

\* Faulty variant of OpenIcs: the file is opened without truncation.
OpenIcsAppend ==
    /\ pc = "open"
    /\ icsFile' = [icsFile EXCEPT !.exists = TRUE]
    /\ pc' = "serialize"
    /\ UNCHANGED <<resp, cleanText, cal, newCal, idx, log, raised, icalBytes,
                   docsDir, markerFile, prior, normVars, sanVars>>
\* Line 85: open(path, "wb") creates the file or truncates it.
OpenIcs ==
    /\ pc = "open"
    /\ icsFile' = EmptyFile
    /\ pc' = "serialize"
    /\ UNCHANGED <<resp, cleanText, cal, newCal, idx, log, raised, icalBytes,
                   docsDir, markerFile, prior, normVars, sanVars>>

\* Line 86, the argument of f.write: new_cal.to_ical().
SerializeCal ==
    /\ pc = "serialize"
    /\ icalBytes' = [done |-> TRUE, data |-> Serialize(newCal)]
    /\ pc' = "write"
    /\ UNCHANGED <<resp, cleanText, cal, newCal, idx, log, raised,
                   docsDir, icsFile, markerFile, prior, normVars, sanVars>>

\* Lines 86-87: f.write of the bytes, and the with block closes the file.
WriteIcs ==
    /\ pc = "write"
    /\ icsFile' = [icsFile EXCEPT !.data = @ \o icalBytes.data]
    /\ log' = Append(log, LogLine("New iCal file saved", "", 0, 0))
    /\ pc' = "marker"
    /\ UNCHANGED <<resp, cleanText, cal, newCal, idx, raised, icalBytes,
                   docsDir, markerFile, prior, normVars, sanVars>>

\* Lines 91-94: docs/.nojekyll is opened with "w" and "" is written.
WriteMarker ==
    /\ pc = "marker"
    /\ markerFile' = EmptyFile
    /\ log' = Append(log, LogLine("Created marker", "", 0, 0))
    /\ pc' = "done"
    /\ UNCHANGED <<resp, cleanText, cal, newCal, idx, raised, icalBytes,
                   docsDir, icsFile, prior, normVars, sanVars>>

Next ==
    \/ FetchOk \/ FetchFail \/ SanitizeText \/ ParseOk \/ ParseFail
    \/ CopyMetadata \/ SkipEvent \/ ProcessEvent \/ FailEvent
    \/ MakeDirs \/ OpenIcs \/ SerializeCal \/ WriteIcs \/ WriteMarker

Spec == Init /\ [][Next]_vars

(***************************************************************************)
(* Claims about the time rewrite (NormSpec).                               *)
(***************************************************************************)
InLocalStart == ToLocal(nIn.start)
OutLocalStart == ToLocal(nOut.start)
OutLocalEnd == ToLocal(nOut.end)

\* C1: an event whose Amsterdam start reads 08:45 comes out with an
\* Amsterdam start reading 09:00 and an Amsterdam end reading 13:00, both on
\* the local date of the original start, whatever the original end was.
C1_MorningShift ==
    (nStage # "input" /\ IsMorning(InLocalStart)) =>
        /\ HHMM(OutLocalStart) = 900
        /\ HHMM(OutLocalEnd) = 1300
        /\ LocalDay(OutLocalStart) = LocalDay(InLocalStart)
        /\ LocalDay(OutLocalEnd) = LocalDay(InLocalStart)

\* C2: an event whose Amsterdam start reads 13:45 (and so not 08:45) comes
\* out with an Amsterdam start reading 13:00 and an Amsterdam end reading
\* 17:00.
C2_AfternoonShift ==
    (nStage # "input" /\ IsAfternoon(InLocalStart)) =>
        /\ ~IsMorning(InLocalStart)
        /\ HHMM(OutLocalStart) = 1300
        /\ HHMM(OutLocalEnd) = 1700

\* C3: an event whose Amsterdam start reads neither 08:45 nor 13:45 comes
\* out with the very instants it came in with.
C3_PassThrough ==
    (nStage # "input" /\ HHMM(InLocalStart) \notin {845, 1345}) =>
        /\ nOut.start = nIn.start
        /\ nOut.end = nIn.end

\* C3 happens: a summer event starting 08:44 or 08:46 local has been rewritten.
C3_Witness ==
    /\ nStage = "once"
    /\ HHMM(InLocalStart) \in {844, 846}
    /\ UtcOffsetAt(nIn.start) = CEST
    /\ nOut.start = nIn.start

\* C6: rewriting the result of the rewrite changes neither instant.
C6_Idempotent ==
    nStage = "twice" => (nOut2.start = nOut.start /\ nOut2.end = nOut.end)

\* C6 happens: a morning shift was moved by the first pass and has been
\* through the second.
C6_Witness ==
    /\ nStage = "twice"
    /\ IsMorning(InLocalStart)
    /\ nOut.start # nIn.start
    /\ nOut.end # nIn.end

(***************************************************************************)
(* Claims about the text cleaning (SanSpec).                               *)
(***************************************************************************)
\* The fields of a text between its LF characters, empty ones included.
RECURSIVE FieldsFrom(_, _, _)
FieldsFrom(t, i, cur) ==
    IF i > Len(t) THEN <<cur>>
    ELSE IF t[i] = "LF" THEN <<cur>> \o FieldsFrom(t, i + 1, <<>>)
    ELSE FieldsFrom(t, i + 1, Append(cur, t[i]))
FieldsOnLF(t) == FieldsFrom(t, 1, <<>>)

Blank == {"SP", "NBSP"}

\* What the contract asks of one line: cut before the first and after the
\* last character that is not white space, then drop every U+00A0.
Trimmed(l) ==
    LET keep == {i \in 1..Len(l) : l[i] \notin Blank}
    IN IF keep = {} THEN <<>>
       ELSE LET lo == CHOOSE i \in keep : \A j \in keep : i <= j
                hi == CHOOSE i \in keep : \A j \in keep : j <= i
            IN SelectSeq(SubSeq(l, lo, hi), LAMBDA c : c # "NBSP")

LinesCleaned ==
    LET inL == SplitLines(sText)
        outL == FieldsOnLF(sOut)
    IN IF inL = <<>> THEN sOut = <<>>
       ELSE /\ Len(outL) = Len(inL)
            /\ \A i \in 1..Len(inL) :
                  /\ outL[i] = Trimmed(inL[i])
                  /\ outL[i] # <<>> =>
                        (outL[i][1] \notin Blank /\ outL[i][Len(outL[i])] \notin Blank)
                  /\ \A j \in 1..Len(outL[i]) : outL[i][j] \notin {"NBSP", "CR", "LF"}

WithoutFinalLF(t) ==
    IF t # <<>> /\ t[Len(t)] = "LF" THEN SubSeq(t, 1, Len(t) - 1) ELSE t

\* C8 as stated: the cleaned text has the lines of the input, each trimmed
\* and free of U+00A0, joined by LF; cleaning the cleaned text returns it
\* unchanged.
C8_SanitizeFixpoint ==
    /\ sStage # "input" => LinesCleaned
    /\ sStage = "twice" => sOut2 = sOut

\* C8 as amended: the same about the lines; cleaning the cleaned text
\* returns it unchanged, except that a cleaned text ending in LF (its last
\* line is empty) loses that final LF.
C8_Sanitize ==
    /\ sStage # "input" => LinesCleaned
    /\ sStage = "twice" => sOut2 = WithoutFinalLF(sOut)

\* C8 happens: a text of several lines holding U+00A0 and a space was
\* cleaned twice, and the second pass dropped the final LF.
C8_Witness ==
    /\ sStage = "twice"
    /\ \E i \in 1..Len(sText) : sText[i] = "NBSP"
    /\ \E i \in 1..Len(sText) : sText[i] = "SP"
    /\ Len(SplitLines(sText)) > 1
    /\ sOut2 # sOut

(***************************************************************************)
(* Claims about the run (Spec).                                            *)
(***************************************************************************)
HasBothTimes(e) ==
    (\E i \in 1..Len(e) : e[i].name = "DTSTART") /\ (\E i \in 1..Len(e) : e[i].name = "DTEND")

\* The values an event holds under one property name, in order.
ValuesOf(e, n) ==
    LET ps == SelectSeq(e, LAMBDA p : p.name = n)
    IN [i \in 1..Len(ps) |-> ps[i].val]

NamesOf(e) == {e[i].name : i \in 1..Len(e)}

UidOrNA(e) == IF "UID" \in NamesOf(e) THEN ValuesOf(e, "UID")[1].s ELSE "N/A"

\* The source events the loop has been through.
Handled == IF idx >= 1 THEN SubSeq(cal.events, 1, idx - 1) ELSE <<>>
Kept == SelectSeq(Handled, HasBothTimes)
Skipped == SelectSeq(Handled, LAMBDA e : ~HasBothTimes(e))
SkipLines == SelectSeq(log, LAMBDA l : l.msg = "Skipping event")

PublishStages == {"open", "serialize", "write", "marker", "done"}

\* C4: the events of the new calendar are the source events that have both
\* times, one for one and in source order; each event left out has its
\* line naming its UID or "N/A"; no run fails on an event that lacks a
\* time; and the loop is through every event before anything is published.
C4_SkipIncomplete ==
    /\ Len(newCal.events) = Len(Kept)
    /\ \A j \in 1..Len(Kept) :
          /\ HasBothTimes(newCal.events[j])
          /\ \A n \in NamesOf(Kept[j]) \ {"DTSTART", "DTEND"} :
                ValuesOf(newCal.events[j], n) = ValuesOf(Kept[j], n)
    /\ Len(SkipLines) = Len(Skipped)
    /\ \A j \in 1..Len(Skipped) : SkipLines[j].uid = UidOrNA(Skipped[j])
    /\ (pc = "failed" /\ idx >= 1) => HasBothTimes(cal.events[idx])
    /\ pc \in PublishStages => idx = Len(cal.events) + 1

\* C4 happens: a run is done that left out an event without UID and then
\* kept the next one.
C4_Witness ==
    /\ pc = "done"
    /\ Len(cal.events) = 2
    /\ ~HasBothTimes(cal.events[1]) /\ "UID" \notin NamesOf(cal.events[1])
    /\ HasBothTimes(cal.events[2])
    /\ Len(newCal.events) = 1

\* C5: after a fetch that failed (no response, or a 4xx / 5xx status) the
\* run has printed the fetch error, re-raised it and stopped for good: no
\* later stage has left a trace and the file system is as the run found it.
C5_FetchFailure ==
    (pc # "fetch" /\ resp.status # 200) =>
        /\ pc = "failed"
        /\ raised = "RequestException"
        /\ log[Len(log)].msg = "Error fetching the iCal file"
        /\ cleanText = <<>> /\ cal = NoCal /\ newCal = NoCal /\ idx = 0
        /\ icalBytes = NoBytes
        /\ Fs = prior
        /\ ~ENABLED Next

\* C5 happens: the fetch met a 500 while an older output file was there.
C5_Witness ==
    /\ pc = "failed"
    /\ resp.status = 500
    /\ prior.ics = OldIcs
    /\ icsFile = OldIcs

\* C7: from the first event on, the new calendar holds the properties of
\* the parsed one, unchanged; each new event holds, under every name but
\* DTSTART and DTEND, exactly the values of its source event, and one
\* DTSTART and one DTEND, both date-times.
C7_PropertiesKept ==
    /\ (idx >= 1 \/ newCal.events # <<>>) => newCal.meta = cal.meta
    /\ Len(newCal.events) <= Len(Kept)
    /\ \A j \in 1..Len(newCal.events) :
          LET out == newCal.events[j]
              src == Kept[j]
          IN /\ NamesOf(out) = NamesOf(src)
             /\ \A n \in NamesOf(src) \ {"DTSTART", "DTEND"} :
                   ValuesOf(out, n) = ValuesOf(src, n)
             /\ Len(ValuesOf(out, "DTSTART")) = 1 /\ ValuesOf(out, "DTSTART")[1].kind = "datetime"
             /\ Len(ValuesOf(out, "DTEND")) = 1 /\ ValuesOf(out, "DTEND")[1].kind = "datetime"

\* C7 happens: the 08:45 event with UID and SUMMARY was rebuilt with new
\* times into a calendar that has its two properties.
C7_Witness ==
    /\ pc = "done"
    /\ Len(newCal.meta) = 2
    /\ \E j \in 1..Len(newCal.events) :
          /\ ValuesOf(newCal.events[j], "UID") = <<TextVal("E1")>>
          /\ ValuesOf(newCal.events[j], "SUMMARY") = <<TextVal("Shift")>>
          /\ ValuesOf(newCal.events[j], "DTSTART") # ValuesOf(Kept[j], "DTSTART")

\* C9: once the loop is over the run goes on to its end; at its end docs
\* exists, docs/fixed_shifts.ics holds the serialization of this run's
\* calendar and nothing else, docs/.nojekyll exists and is empty; the
\* marker is untouched until the calendar file is written.
C9_Publish ==
    /\ pc = "done" =>
          /\ raised = ""
          /\ docsDir
          /\ icsFile = [exists |-> TRUE, data |-> Serialize(newCal)]
          /\ markerFile = [exists |-> TRUE, data |-> <<>>]
    /\ ((pc = "normalize" /\ idx > Len(cal.events)) \/ pc \in PublishStages \ {"done"}) =>
          (raised = "" /\ ENABLED Next)
    /\ pc # "done" => markerFile = prior.marker
    /\ pc = "marker" => icsFile = [exists |-> TRUE, data |-> Serialize(newCal)]

\* C9 happens: a run is done that found docs with an older calendar file
\* and a non-empty marker, and wrote a calendar with an event.
C9_Witness ==
    /\ pc = "done"
    /\ prior.docs /\ prior.ics = OldIcs /\ prior.marker = OldMarker
    /\ newCal.events # <<>>

\* C10: the stages run in the order Fetch, Sanitize, Parse, Normalize,
\* Serialize, Publish; a failed run has executed nothing further and has left
\* the file system as it found it; and the file system is as the run found
\* it for as long as the serialization has not been computed.
C10_StagesInOrder ==
    /\ pc = "failed" => (Fs = prior /\ ~ENABLED Next)
    /\ icalBytes.done => (idx = Len(cal.events) + 1 /\ newCal.meta = cal.meta)
    /\ idx >= 1 => cleanText = Sanitize(resp.text)
    /\ Fs # prior => icalBytes.done

====
